---- MODULE Spec2Model ----
(***************************************************************************)
(* Model of the hybrid search engine of src/app/hybrid_search.py:          *)
(* QueryAnalyzer, KeywordDensityScorer, ContextBoostScorer,                *)
(* ExactMatchScorer and HybridSearchEngine.                                *)
(*                                                                         *)
(* Conventions.                                                            *)
(*  - Python str is a TLA+ string; the Cyrillic literals of the source are *)
(*    transliterated letter by letter (SANY accepts ASCII only), keeping   *)
(*    every substring relation between the literals ("vhod" is a prefix of *)
(*    "vhodyasch", "dovol" occurs in "nedovol", ...).                      *)
(*  - Python float is fixed point: factor values and bonuses are in        *)
(*    thousandths (1.0 is 1000), weights in hundredths (0.30 is 30), so a  *)
(*    final_score is in units of 10^-5.  Cosine similarities are in        *)
(*    hundredths (-100..100).                                              *)
(*  - A value that may be None is [none |-> BOOLEAN, s |-> STRING].        *)
(*  - An operation that may raise returns [raised |-> BOOLEAN, ...].       *)
(***************************************************************************)
EXTENDS Integers, Sequences, FiniteSets, TLC

VARIABLES
    weights,            \* self.weights of each engine instance
    embedding_model,    \* self.embedding_model is configured (truthy)
    hybrid_search_engine, \* api.py: the global engine instance, "None" when startup failed
    pc,                 \* position of the caller: "idle", or the outcome of its last call
    self,               \* the engine instance the last search call was made on
    http_status,        \* api.py: status of the /search response; 0 for a direct call
    query,              \* argument of the last search call
    limit,              \* argument of the last search call
    llm,                \* behaviour of the LLM collaborator during the call
    es_lexical,         \* behaviour of the index for the lexical query
    es_semantic,        \* behaviour of the index / embedding model for the semantic query
    es_calls,           \* the es.search calls the search call issued, in order
    query_analysis,     \* result of QueryAnalyzer.analyze
    all_candidates,     \* result of _multi_stage_retrieval
    scored_candidates,  \* result of _multi_factor_scoring
    response,           \* value returned by search
    scorer_call         \* the last direct call of a scorer: arguments and returned value

vars == <<weights, embedding_model, hybrid_search_engine, pc, self, http_status, query, limit,
          llm, es_lexical, es_semantic, es_calls, query_analysis, all_candidates,
          scored_candidates, response, scorer_call>>

\* the instances of HybridSearchEngine; api.py constructs one, a script may
\* construct more
Engines == {"engine1", "engine2"}

-----------------------------------------------------------------------------
(* Bounds of the model *)

MaxHits == 2        \* longest hit list an index query returns
MaxLimit == 2       \* largest limit passed to search
MaxDocHits == 1     \* longest hit list in the collaborator-fault scenarios
MaxOutgoing == 9    \* outgoing calls in the candidate pool of the call-type scenario

-----------------------------------------------------------------------------
(* Python string primitives *)

Range(f) == {f[i] : i \in DOMAIN f}

CharAt(s, i) == SubSeq(s, i, i)

UpperChars == <<"A", "B", "I", "V", "Z">>
LowerChars == <<"a", "b", "i", "v", "z">>

\* str.lower() on one character
LowerChar(c) ==
    IF \E k \in DOMAIN UpperChars : UpperChars[k] = c
    THEN LowerChars[CHOOSE k \in DOMAIN UpperChars : UpperChars[k] = c]
    ELSE c

RECURSIVE Lower(_)
\* str.lower()
Lower(s) == IF Len(s) = 0 THEN "" ELSE LowerChar(CharAt(s, 1)) \o Lower(SubSeq(s, 2, Len(s)))

IsSpace(c) == c = " "

\* a character matched by the regular expression \w
IsWordChar(c) ==
    c \in {"a", "b", "c", "d", "e", "f", "g", "h", "i", "j", "k", "l", "m",
           "n", "o", "p", "q", "r", "s", "t", "u", "v", "w", "x", "y", "z",
           "A", "B", "I", "V", "Z",
           "0", "1", "2", "3", "4", "5", "6", "7", "8", "9", "_"}

\* the Python test (t in s) for two strings
Contains(s, t) ==
    \/ Len(t) = 0
    \/ \E i \in 1..(Len(s) - Len(t) + 1) : SubSeq(s, i, i + Len(t) - 1) = t

RECURSIVE LStrip(_)
LStrip(s) == IF Len(s) > 0 /\ IsSpace(CharAt(s, 1)) THEN LStrip(SubSeq(s, 2, Len(s))) ELSE s

RECURSIVE RStrip(_)
RStrip(s) == IF Len(s) > 0 /\ IsSpace(CharAt(s, Len(s))) THEN RStrip(SubSeq(s, 1, Len(s) - 1)) ELSE s

\* str.strip()
Strip(s) == RStrip(LStrip(s))

\* a character that belongs to a token: mode "split" is str.split() (anything
\* but whitespace), mode "word" is the regular expression \w
IsTok(mode, c) == IF mode = "split" THEN ~IsSpace(c) ELSE IsWordChar(c)

RECURSIVE Tokens(_, _, _, _)
\* the maximal runs of token characters of s, in order; cur is the run being
\* read and acc the runs already closed
Tokens(s, mode, cur, acc) ==
    IF Len(s) = 0
    THEN IF Len(cur) > 0 THEN Append(acc, cur) ELSE acc
    ELSE IF IsTok(mode, CharAt(s, 1))
         THEN Tokens(SubSeq(s, 2, Len(s)), mode, cur \o CharAt(s, 1), acc)
         ELSE Tokens(SubSeq(s, 2, Len(s)), mode,
                     "", IF Len(cur) > 0 THEN Append(acc, cur) ELSE acc)

\* str.split() with no argument
Split(s) == Tokens(s, "split", "", <<>>)

\* re.findall(r'\w+', s)
FindWords(s) == Tokens(s, "word", "", <<>>)

RECURSIVE SelectIdx(_, _, _)
\* [i for i, w in enumerate(ws) if w == x], zero-based, scanning from index k
SelectIdx(ws, x, k) ==
    IF k > Len(ws) THEN <<>>
    ELSE (IF ws[k] = x THEN <<k - 1>> ELSE <<>>) \o SelectIdx(ws, x, k + 1)

RECURSIVE SumSeq(_)
SumSeq(s) == IF s = <<>> THEN 0 ELSE Head(s) + SumSeq(Tail(s))

Abs(n) == IF n < 0 THEN 0 - n ELSE n

Min2(a, b) == IF a <= b THEN a ELSE b

\* None-able strings
PyStr(s) == [none |-> FALSE, s |-> s]
PyNone == [none |-> TRUE, s |-> ""]

\* the Python expression (a or b) on None-able strings
PyOr(a, b) == IF ~a.none /\ Len(a.s) > 0 THEN a ELSE b

\* PySliceTo with the end of the slice one too far
PySliceToOffByOne(seq, n) ==
    IF n >= 0 THEN SubSeq(seq, 1, Min2(n + 1, Len(seq)))
    ELSE SubSeq(seq, 1, Len(seq) + n + 1)

\* seq[:n]
PySliceTo(seq, n) ==
    IF n >= 0 THEN SubSeq(seq, 1, Min2(n, Len(seq)))
    ELSE SubSeq(seq, 1, Len(seq) + n)

-----------------------------------------------------------------------------
(* QueryAnalyzer *)

stop_words == {"pokazhi", "naidi", "gde", "kogda", "kak", "chto", "dialogi", "zvonki", "razgovory"}

RECURSIVE KeepKeywords(_)
\* [w for w in words if w not in stop_words and len(w) > 2]
KeepKeywords(words) ==
    IF words = <<>> THEN <<>>
    ELSE (IF Head(words) \notin stop_words /\ Len(Head(words)) > 2 THEN <<Head(words)>> ELSE <<>>)
         \o KeepKeywords(Tail(words))

_extract_keywords(q) == KeepKeywords(Split(Lower(q)))

\* any(w in query_lower for w in ws)
AnyIn(ws, query_lower) == \E w \in ws : Contains(query_lower, w)

_detect_intent(q) ==
    LET query_lower == Lower(q) IN
    IF AnyIn({"vhodyasch", "vhod"}, query_lower) THEN "vhodyaschie_zvonki"
    ELSE IF AnyIn({"nedovol", "zhalob", "problem"}, query_lower) THEN "nedovolstvo_klienta"
    ELSE IF AnyIn({"operator", "menedzher"}, query_lower)
            /\ AnyIn({"grub", "ham", "nevezhliv"}, query_lower) THEN "problemy_s_operatorom"
    ELSE IF AnyIn({"proda", "kup", "zakaz"}, query_lower) THEN "prodazhi"
    ELSE IF AnyIn({"empat", "dovolen", "dovol"}, query_lower) THEN "polozhitelnye_emocii"
    ELSE "obschiy_poisk"

\* emotion_keywords, in insertion order
emotion_keywords ==
    << <<"nedovol", "negative">>, <<"zhalob", "negative">>, <<"grub", "negative">>,
       <<"dovolen", "positive">>, <<"empat", "positive">> >>

RECURSIVE EmotionsFrom(_, _)
EmotionsFrom(query_lower, k) ==
    IF k > Len(emotion_keywords) THEN <<>>
    ELSE (IF Contains(query_lower, emotion_keywords[k][1]) THEN <<emotion_keywords[k][2]>> ELSE <<>>)
         \o EmotionsFrom(query_lower, k + 1)

_extract_entities(q) ==
    LET query_lower == Lower(q) IN
    [operators  |-> <<>>,
     products   |-> <<>>,
     emotions   |-> EmotionsFrom(query_lower, 1),
     call_types |-> (IF Contains(query_lower, "vhodyasch") THEN <<"Vhodyaschiy zvonok">> ELSE <<>>)
                    \o (IF Contains(query_lower, "ishodyasch") THEN <<"Ishodyaschiy zvonok">> ELSE <<>>)]

_classify_query_type(q, intent) ==
    IF intent \in {"vhodyaschie_zvonki"} THEN "structured"
    ELSE IF intent \in {"nedovolstvo_klienta", "problemy_s_operatorom"} THEN "semantic"
    ELSE "keyword"

(* The LLM collaborator.  One behaviour of requests.post is                 *)
(*   [outcome |-> "timeout" | "connection_error" | "malformed_body" |       *)
(*                "response", status_code |-> Int, content |-> completion]  *)
(* where "malformed_body" is a response whose body is not JSON or has no    *)
(* choices[0].message.content,                                              *)
(* and a completion is a sequence of pieces: "FENCE_JSON" and "FENCE" (three *)
(* backquotes with and without the word json), the blank " ", free prose    *)
(* "txt", and JSON texts named by the                                       *)
(* value they parse to (see JsonValue).                                     *)

JsonTexts == {"{eq,c}", "{eq}", "{c}", "{}", "[1]", "null", "{eq,c:7}"}

\* the value json.loads gives for each JSON text; keys is the set of keys of
\* an object.  concepts is a list of strings, or (list = FALSE) a number.
JsonValue(t) ==
    [type |-> IF t = "[1]" THEN "array" ELSE IF t = "null" THEN "null" ELSE "object",
     keys |-> IF t \in {"{eq,c}", "{eq,c:7}"} THEN {"enhanced_query", "concepts"}
              ELSE IF t = "{eq}" THEN {"enhanced_query"}
              ELSE IF t = "{c}" THEN {"concepts"}
              ELSE {},
     enhanced_query |-> IF t \in {"{eq,c}", "{eq}", "{eq,c:7}"} THEN "zakaz pokupka" ELSE "",
     concepts |-> IF t \in {"{eq,c}", "{c}"} THEN [list |-> TRUE, items |-> <<"pokupka">>]
                  ELSE IF t = "{eq,c:7}" THEN [list |-> FALSE, items |-> <<"7">>]
                  ELSE [list |-> TRUE, items |-> <<>>]]

\* position of the first occurrence of piece d in c at or after k; 0 if none
FirstAt(c, d, k) ==
    IF \E i \in k..Len(c) : c[i] = d
    THEN CHOOSE i \in k..Len(c) : c[i] = d /\ \A j \in k..(i - 1) : c[j] # d
    ELSE 0

\* a fence marker occurs in the text: the json marker begins with the plain one
HasFence(c) == \E i \in DOMAIN c : c[i] \in {"FENCE", "FENCE_JSON"}

\* text.split(d)[1]: what follows the first d, up to the next d
SplitSecond(c, d) ==
    LET a == FirstAt(c, d, 1)
        b == FirstAt(c, d, a + 1)
    IN  SubSeq(c, a + 1, IF b = 0 THEN Len(c) ELSE b - 1)

\* text.split(FENCE)[0]: what precedes the first fence marker of either kind
SplitFirstFence(c) ==
    IF HasFence(c)
    THEN SubSeq(c, 1, (CHOOSE i \in DOMAIN c :
                          c[i] \in {"FENCE", "FENCE_JSON"} /\ \A j \in 1..(i - 1) : c[j] \notin {"FENCE", "FENCE_JSON"}) - 1)
    ELSE c

RECURSIVE StripPieces(_)
\* str.strip() on a sequence of pieces
StripPieces(c) ==
    IF c # <<>> /\ Head(c) = " " THEN StripPieces(Tail(c))
    ELSE IF c # <<>> /\ c[Len(c)] = " " THEN StripPieces(SubSeq(c, 1, Len(c) - 1))
    ELSE c

\* lines 143-149: strip the completion and take the inside of a fenced block
Unfence(content) ==
    LET llm_response == StripPieces(content) IN
    IF \E i \in DOMAIN llm_response : llm_response[i] = "FENCE_JSON"
    THEN StripPieces(SplitFirstFence(SplitSecond(llm_response, "FENCE_JSON")))
    ELSE IF HasFence(llm_response)
    THEN StripPieces(SplitFirstFence(SplitSecond(llm_response, "FENCE")))
    ELSE llm_response

\* json.loads: succeeds on one JSON text surrounded by blanks only
JsonLoads(c) ==
    LET body == StripPieces(c) IN
    IF Len(body) = 1 /\ body[1] \in JsonTexts
    THEN [raised |-> FALSE, value |-> JsonValue(body[1])]
    ELSE [raised |-> TRUE, value |-> JsonValue("{}")]

Fallback(q) ==
    [type |-> "object", keys |-> {"enhanced_query", "concepts"},
     enhanced_query |-> q, concepts |-> [list |-> TRUE, items |-> <<>>]]

\* _llm_expand that parses the completion whatever the status code
_llm_expandAnyStatus(q, l) ==
    IF l.outcome \in {"timeout", "connection_error"} THEN Fallback(q)
    ELSE IF l.outcome = "malformed_body" THEN Fallback(q)
    ELSE LET parsed == JsonLoads(Unfence(l.content)) IN
         IF parsed.raised THEN Fallback(q) ELSE parsed.value

\* _llm_expand (lines 113-159)
_llm_expand(q, l) ==
    IF l.outcome \in {"timeout", "connection_error"} THEN Fallback(q)   \* requests.post raised
    ELSE IF l.status_code # 200 THEN Fallback(q)
    ELSE IF l.outcome = "malformed_body" THEN Fallback(q)   \* response.json() or the indexing raised
    ELSE LET parsed == JsonLoads(Unfence(l.content)) IN
         IF parsed.raised THEN Fallback(q) ELSE parsed.value

\* dict.get(key, default) on the value _llm_expand returned
Get(d, key, default) == IF key \in d.keys THEN d[key] ELSE default

NoAnalysis ==
    [original_query |-> "", keywords |-> <<>>, intent |-> "",
     entities |-> [operators |-> <<>>, products |-> <<>>, emotions |-> <<>>, call_types |-> <<>>],
     expanded_query |-> "", concepts |-> [list |-> TRUE, items |-> <<>>], query_type |-> ""]

\* analyze that falls back on both fields as soon as one is missing
analyzeStrict(q, l) ==
    LET llm_analysis == _llm_expand(q, l)
        complete == {"enhanced_query", "concepts"} \subseteq llm_analysis.keys
    IN  IF llm_analysis.type # "object"
        THEN [raised |-> TRUE, value |-> NoAnalysis]
        ELSE [raised |-> FALSE,
              value |-> [original_query |-> q,
                         keywords |-> _extract_keywords(q),
                         intent |-> _detect_intent(q),
                         entities |-> _extract_entities(q),
                         expanded_query |-> IF complete THEN llm_analysis.enhanced_query ELSE q,
                         concepts |-> IF complete THEN llm_analysis.concepts
                                      ELSE [list |-> TRUE, items |-> <<>>],
                         query_type |-> _classify_query_type(q, _detect_intent(q))]]

\* QueryAnalyzer.analyze (lines 26-44): raises AttributeError when
\* llm_analysis has no .get
analyze(q, l) ==
    LET keywords == _extract_keywords(q)
        intent == _detect_intent(q)
        entities == _extract_entities(q)
        llm_analysis == _llm_expand(q, l)
    IN  IF llm_analysis.type # "object"
        THEN [raised |-> TRUE, value |-> NoAnalysis]
        ELSE [raised |-> FALSE,
              value |-> [original_query |-> q,
                         keywords |-> keywords,
                         intent |-> intent,
                         entities |-> entities,
                         expanded_query |-> Get(llm_analysis, "enhanced_query", q),
                         concepts |-> Get(llm_analysis, "concepts", [list |-> TRUE, items |-> <<>>]),
                         query_type |-> _classify_query_type(q, intent)]]

-----------------------------------------------------------------------------
(* KeywordDensityScorer *)

\* 1000 * ln(n) for n = 1..12, rounded (math.log)
LnMilli == <<0, 693, 1099, 1386, 1609, 1792, 1946, 2079, 2197, 2303, 2398, 2485>>

RECURSIVE Count(_, _)
\* list.count(x)
Count(ws, x) == IF ws = <<>> THEN 0 ELSE (IF Head(ws) = x THEN 1 ELSE 0) + Count(Tail(ws), x)

\* lines 205-206: tf_log = 1 + log(1 + tf * total_words) if tf > 0 else 0
TfLog(count) == IF count > 0 THEN 1000 + LnMilli[1 + count] ELSE 0

RECURSIVE SumOver(_, _)
\* sum of the values of a dict given as a function f over the key set ks
SumOver(f, ks) ==
    IF ks = {} THEN 0
    ELSE LET k == CHOOSE x \in ks : TRUE IN f[k] + SumOver(f, ks \ {k})

\* lines 230-257; word_positions is keyed by query word
_calculate_proximity_bonus(query_words, word_positions) ==
    IF Len(query_words) < 2 THEN 1000
    ELSE
        LET pairs == { t \in (DOMAIN query_words) \X (DOMAIN query_words) : t[1] < t[2] }
            distances ==
                UNION { { Abs(pos1 - pos2) :
                            <<pos1, pos2>> \in Range(word_positions[query_words[t[1]]])
                                               \X Range(word_positions[query_words[t[2]]]) } :
                        t \in pairs }
        IN  IF distances = {} THEN 1000
            ELSE LET min_distance == CHOOSE d \in distances : \A e \in distances : d <= e IN
                 IF min_distance <= 3 THEN 3000
                 ELSE IF min_distance <= 5 THEN 2000
                 ELSE IF min_distance <= 10 THEN 1500
                 ELSE 1000

RECURSIVE AllPositions(_, _)
\* all_positions: the positions of each query word, in query order
AllPositions(query_words, word_positions) ==
    IF query_words = <<>> THEN <<>>
    ELSE word_positions[Head(query_words)] \o AllPositions(Tail(query_words), word_positions)

\* lines 259-284; relative_position = (sum / len) / total_words is compared
\* with 0.1, 0.3 and 0.5 by cross-multiplication
_calculate_position_bonus(query_words, word_positions, total_words) ==
    LET all_positions == AllPositions(query_words, word_positions)
        n == Len(all_positions)
        s == SumSeq(all_positions)
    IN  IF DOMAIN word_positions = {} \/ total_words = 0 THEN 1000
        ELSE IF n = 0 THEN 1000
        ELSE IF 10 * s < n * total_words THEN 2500
        ELSE IF 10 * s < 3 * n * total_words THEN 2000
        ELSE IF 2 * s < n * total_words THEN 1500
        ELSE 1000

\* a degenerate result whose bonuses are 0.0
NeutralDensityZero == [density_score |-> 0, proximity_bonus |-> 0, position_bonus |-> 0]

\* lines 176-181 and 189-194
NeutralDensity == [density_score |-> 0, proximity_bonus |-> 1000, position_bonus |-> 1000]

\* KeywordDensityScorer.score; text is None-able
KeywordDensityScore(query_words, text) ==
    IF text.none \/ Len(text.s) = 0 \/ query_words = <<>> THEN NeutralDensity
    ELSE
        LET text_words == FindWords(Lower(text.s))
            total_words == Len(text_words)
            keys == Range(query_words)
            tf_scores == [w \in keys |-> TfLog(Count(text_words, Lower(w)))]
            word_positions == [w \in keys |-> SelectIdx(text_words, Lower(w), 1)]
        IN  IF total_words = 0 THEN NeutralDensity
            ELSE [density_score |-> SumOver(tf_scores, keys) \div Len(query_words),
                  proximity_bonus |-> _calculate_proximity_bonus(query_words, word_positions),
                  position_bonus |-> _calculate_position_bonus(query_words, word_positions, total_words)]

-----------------------------------------------------------------------------
(* ExactMatchScorer *)

\* ExactMatchScorer.score that tests the word subset before the phrase
ExactMatchValueSubsetFirst(q, text) ==
    LET query_lower == Strip(Lower(q))
        text_lower == Lower(text)
        query_words == Range(Split(query_lower))
        text_words == Range(FindWords(text_lower))
        matched == Cardinality(query_words \cap text_words)
        total == Cardinality(query_words)
    IN  IF query_words \subseteq text_words THEN 5000
        ELSE IF Contains(text_lower, query_lower) THEN 10000
        ELSE IF total > 0 /\ 5 * matched >= 4 * total THEN 2000
        ELSE IF total > 0 /\ 5 * matched >= 3 * total THEN 1000
        ELSE 0

\* ExactMatchScorer.score on a text that is a str
ExactMatchValue(q, text) ==
    LET query_lower == Strip(Lower(q))
        text_lower == Lower(text)
        query_words == Range(Split(query_lower))
        text_words == Range(FindWords(text_lower))
        matched == Cardinality(query_words \cap text_words)
        total == Cardinality(query_words)
    IN  IF Contains(text_lower, query_lower) THEN 10000
        ELSE IF query_words \subseteq text_words THEN 5000
        ELSE IF total > 0 /\ 5 * matched >= 4 * total THEN 2000     \* match_ratio >= 0.8
        ELSE IF total > 0 /\ 5 * matched >= 3 * total THEN 1000     \* match_ratio >= 0.6
        ELSE 0

\* ExactMatchScorer.score; text.lower() raises AttributeError on None
ExactMatchScore(q, text) ==
    IF text.none THEN [raised |-> TRUE, value |-> 0]
    ELSE [raised |-> FALSE, value |-> ExactMatchValue(q, text.s)]

-----------------------------------------------------------------------------
(* ContextBoostScorer *)

\* the intents _detect_intent can return
Intents == {"vhodyaschie_zvonki", "nedovolstvo_klienta", "problemy_s_operatorom",
            "prodazhi", "polozhitelnye_emocii", "obschiy_poisk"}

\* the substring tests of lines 304, 313 and 321 on each intent, evaluated once
IntentSignals ==
    [intent \in Intents |->
        [dissatisfied |-> Contains(Lower(intent), "nedovolstvo") \/ Contains(Lower(intent), "nedovol"),
         operator |-> Contains(Lower(intent), "operator"),
         positive |-> Contains(intent, "polozhitelnye_emocii")]]

\* calculate_boost whose dissatisfaction conditions exclude one another (elif)
calculate_boostExclusive(analysis, document) ==
    LET call_types == analysis.entities.call_types
        b1 == IF call_types # <<>> /\ document.call_type \in Range(call_types) THEN 5 ELSE 1
        dissatisfied == IntentSignals[analysis.intent].dissatisfied
        b2 == IF ~dissatisfied THEN 1
              ELSE IF document.problem_call_has THEN 4
              ELSE IF document.qa_critical_violation THEN 3
              ELSE IF document.no_go_count > 0 THEN 2
              ELSE 1
        operator_name == analysis.entities.operators
        b5 == IF /\ IntentSignals[analysis.intent].operator
                 /\ operator_name # <<>>
                 /\ \E op \in Range(operator_name) :
                        Contains(Lower(document.operator_name), Lower(op))
              THEN 3 ELSE 1
        positive == IntentSignals[analysis.intent].positive
        b6 == 1000 * b1 * b2 * b5
        b7 == IF positive /\ document.empathy_count > 0 THEN (b6 * 5) \div 2 ELSE b6
    IN  IF positive /\ document.qa_total_score >= 80 THEN (b7 * 3) \div 2 ELSE b7

\* ContextBoostScorer.calculate_boost, in thousandths
calculate_boost(analysis, document) ==
    LET intent == analysis.intent
        entities == analysis.entities
        call_types == entities.call_types
        b1 == IF call_types # <<>> /\ document.call_type \in Range(call_types) THEN 5 ELSE 1
        dissatisfied == IntentSignals[intent].dissatisfied
        b2 == IF dissatisfied /\ document.problem_call_has THEN 4 ELSE 1
        b3 == IF dissatisfied /\ document.qa_critical_violation THEN 3 ELSE 1
        b4 == IF dissatisfied /\ document.no_go_count > 0 THEN 2 ELSE 1
        operator_name == entities.operators
        b5 == IF /\ IntentSignals[intent].operator
                 /\ operator_name # <<>>
                 /\ \E op \in Range(operator_name) :
                        Contains(Lower(document.operator_name), Lower(op))
              THEN 3 ELSE 1
        positive == IntentSignals[intent].positive
        b6 == 1000 * b1 * b2 * b3 * b4 * b5
        b7 == IF positive /\ document.empathy_count > 0 THEN (b6 * 5) \div 2 ELSE b6       \* x2.5
    IN  IF positive /\ document.qa_total_score >= 80 THEN (b7 * 3) \div 2 ELSE b7         \* x1.5

-----------------------------------------------------------------------------
(* Inputs *)

Doc(id, ct, full, summary, problem, empathy, qa) ==
    [has_call_id |-> TRUE, call_id |-> id, call_type |-> ct, operator_name |-> "Ivanov",
     qa_total_score |-> qa, qa_critical_violation |-> FALSE, problem_call_has |-> problem,
     empathy_count |-> empathy, no_go_count |-> 0,
     text_full |-> full, text_summary |-> summary]

DocA == Doc("a", "Vhodyaschiy zvonok", PyStr("klient ochen nedovolen, zakaz"), PyStr(""), TRUE, 0, 50)
DocB == Doc("b", "Ishodyaschiy zvonok", PyStr("Zakaz oformlen"), PyStr("zakaz"), FALSE, 1, 90)

\* documents the index can hold that break a stage: no call_id key, null texts
DocNoId == [DocA EXCEPT !.has_call_id = FALSE, !.call_id = ""]
DocNullText == [DocB EXCEPT !.call_id = "c", !.text_full = PyNone, !.text_summary = PyNone]

Docs == {DocA, DocB}
FaultyDocs == {DocA, DocNoId, DocNullText}

Bm25Scores == {1, 2}
CosineSims == {-50, 80}

SeqsUpTo(S, n) == UNION {[1..k -> S] : k \in 0..n}

Hits(docs, scores) == {[source |-> d, score |-> s] : d \in docs, s \in scores}

IndexFailure(o) == [outcome |-> o, hits |-> <<>>]
IndexAnswers(docs, scores, n) == {[outcome |-> "hits", hits |-> h] : h \in SeqsUpTo(Hits(docs, scores), n)}

\* what the lexical query can meet
LexicalBehaviours == {IndexFailure("error")} \cup IndexAnswers(Docs, Bm25Scores, MaxHits)
FaultyLexicalBehaviours == {IndexFailure("error")} \cup IndexAnswers(FaultyDocs, {2}, MaxDocHits)

\* what the semantic stage can meet: it is not run without an embedding
\* model; with one, encode or the index query may raise
SemanticAnswers == {IndexFailure("error")} \cup IndexAnswers(Docs, CosineSims, MaxHits)
FaultySemanticAnswers ==
    {IndexFailure("error"), IndexFailure("encode_error")} \cup IndexAnswers(FaultyDocs, {80}, MaxDocHits)
SemanticBehaviours(model) == IF ~model THEN {IndexFailure("not_called")} ELSE SemanticAnswers
FaultySemanticBehaviours(model) == IF ~model THEN {IndexFailure("not_called")} ELSE FaultySemanticAnswers

LlmFailure(o) == [outcome |-> o, status_code |-> 0, content |-> <<>>]
LlmResponse(code, c) == [outcome |-> "response", status_code |-> code, content |-> c]

Completions ==
    { <<"{eq,c}">>,
      <<"FENCE_JSON", "{eq,c}", "FENCE">>,
      <<"txt", "FENCE_JSON", " ", "{eq}", " ", "FENCE", "txt">>,
      <<"FENCE", "{c}", "FENCE">>,
      <<"FENCE_JSON", "{eq,c}">>,
      <<" ", "{}", " ">>,
      <<>>,
      <<"txt">>,
      <<"txt", "{eq,c}">>,
      <<"FENCE_JSON", "txt", "FENCE">>,
      <<"[1]">>,
      <<"FENCE_JSON", "null", "FENCE">>,
      <<"{eq,c:7}">> }

LlmBehaviours ==
    {LlmFailure("timeout"), LlmFailure("connection_error"), LlmResponse(500, <<"{eq,c}">>),
     [outcome |-> "malformed_body", status_code |-> 200, content |-> <<>>]}
    \cup {LlmResponse(200, c) : c \in Completions}

BasicLlmBehaviours == {LlmFailure("timeout"), LlmResponse(200, <<"FENCE_JSON", "{eq,c}", "FENCE">>)}

Queries == {"nedovolen klient", "Vhodyaschie zvonki", "kak dela"}
FaultQueries == {"zakaz", "pokazhi vhod"}

Limits == (0 - 1)..MaxLimit

\* update_weights arguments
WeightUpdates == { [f \in {"bm25"} |-> 50] }

(* The analyzer and the text scorers are pure functions of strings.  TLC     *)
(* evaluates a definition without parameters once, so the tables below hold *)
(* their values on the strings of the model and the engine looks them up.   *)

AllQueries == Queries \cup FaultQueries
AllDocs == Docs \cup FaultyDocs
AllTexts == {PyOr(d.text_full, d.text_summary) : d \in AllDocs}

AnalyzeTable == [q \in AllQueries |-> [l \in LlmBehaviours |-> analyze(q, l)]]

DensityTable ==
    [kw \in {_extract_keywords(q) : q \in AllQueries} |->
        [t \in AllTexts |-> KeywordDensityScore(kw, t)]]

ExactMatchTable == [q \in AllQueries |-> [t \in AllTexts |-> ExactMatchScore(q, t)]]

-----------------------------------------------------------------------------
(* HybridSearchEngine: retrieval *)

(* A hit of the index is [source |-> document, score |-> n]: score is the    *)
(* _score of a lexical hit and, for a hit of the semantic query, the cosine *)
(* similarity (in hundredths) that lines 602-607 compute from the embedding *)
(* model's vectors.  A document is the _source of a hit; has_call_id tells  *)
(* whether the key call_id is present, and the two text fields may be null. *)

\* lines 552-566 / 609-623: the candidate built from one hit; the keys
\* bm25_score, semantic_score and source are absent until they are set
Candidate(hit, stage) ==
    [call_id |-> hit.source.call_id,
     call_type |-> hit.source.call_type,
     operator_name |-> hit.source.operator_name,
     qa_total_score |-> hit.source.qa_total_score,
     qa_critical_violation |-> hit.source.qa_critical_violation,
     problem_call_has |-> hit.source.problem_call_has,
     empathy_count |-> hit.source.empathy_count,
     no_go_count |-> hit.source.no_go_count,
     text_full |-> hit.source.text_full,
     text_summary |-> hit.source.text_summary,
     has_bm25_score |-> stage = "bm25",
     bm25_score |-> IF stage = "bm25" THEN hit.score ELSE 0,
     has_semantic_score |-> stage = "semantic",
     semantic_score |-> IF stage = "semantic" THEN hit.score ELSE 0,
     source |-> "",
     final_score |-> 0,
     score_breakdown |-> [bm25 |-> 0, semantic |-> 0, keyword_density |-> 0, exact_match |-> 0,
                          context_boost |-> 0, proximity_bonus |-> 0, position_bonus |-> 0]]

\* _bm25_search (lines 498-571).  The query body is built outside the try
\* block: " ".join(concepts) raises TypeError when concepts is truthy and not
\* a list of strings.  Inside the try block any exception (index error,
\* KeyError on call_id) discards the whole list.
_bm25_search(q, analysis, es) ==
    IF ~analysis.concepts.list
    THEN [raised |-> TRUE, value |-> <<>>]
    ELSE IF es.outcome # "hits" THEN [raised |-> FALSE, value |-> <<>>]
    ELSE IF \E i \in DOMAIN es.hits : ~es.hits[i].source.has_call_id
         THEN [raised |-> FALSE, value |-> <<>>]
    ELSE [raised |-> FALSE, value |-> [i \in DOMAIN es.hits |-> Candidate(es.hits[i], "bm25")]]

\* _semantic_search (lines 573-628): everything runs inside the try block;
\* source.get('text_full', '')[:500] raises TypeError on a null text_full
_semantic_search(model, q, analysis, es) ==
    IF ~model THEN <<>>
    ELSE IF es.outcome # "hits" THEN <<>>
    ELSE IF \E i \in DOMAIN es.hits :
               ~es.hits[i].source.has_call_id \/ es.hits[i].source.text_full.none
         THEN <<>>
    ELSE [i \in DOMAIN es.hits |-> Candidate(es.hits[i], "semantic")]

IdsOf(cands) == {cands[i].call_id : i \in DOMAIN cands}

RECURSIVE MergeBm25NoDedup(_, _)
\* MergeBm25 without the test on candidate_ids
MergeBm25NoDedup(bm25_candidates, acc) ==
    IF bm25_candidates = <<>> THEN acc
    ELSE MergeBm25NoDedup(Tail(bm25_candidates),
                          Append(acc, [Head(bm25_candidates) EXCEPT !.source = "bm25"]))

RECURSIVE MergeBm25(_, _)
\* lines 473-477
MergeBm25(bm25_candidates, acc) ==
    IF bm25_candidates = <<>> THEN acc
    ELSE LET cand == Head(bm25_candidates) IN
         MergeBm25(Tail(bm25_candidates),
                   IF cand.call_id \notin IdsOf(acc)
                   THEN Append(acc, [cand EXCEPT !.source = "bm25"])
                   ELSE acc)

\* UpdateExisting that puts the semantic candidate in the place of the
\* existing one instead of copying its score
UpdateExistingReplace(acc, cand) ==
    LET k == CHOOSE i \in DOMAIN acc :
                 acc[i].call_id = cand.call_id /\ \A j \in 1..(i - 1) : acc[j].call_id # cand.call_id
    IN  [acc EXCEPT ![k] = [cand EXCEPT !.source = "both"]]

\* lines 489-493: update the first existing candidate with the same call_id
UpdateExisting(acc, cand) ==
    LET k == CHOOSE i \in DOMAIN acc :
                 acc[i].call_id = cand.call_id /\ \A j \in 1..(i - 1) : acc[j].call_id # cand.call_id
    IN  [acc EXCEPT ![k] = [@ EXCEPT !.has_semantic_score = TRUE,
                                     !.semantic_score = cand.semantic_score,
                                     !.source = "both"]]

RECURSIVE MergeSemantic(_, _)
\* lines 482-493
MergeSemantic(semantic_candidates, acc) ==
    IF semantic_candidates = <<>> THEN acc
    ELSE LET cand == Head(semantic_candidates) IN
         MergeSemantic(Tail(semantic_candidates),
                       IF cand.call_id \notin IdsOf(acc)
                       THEN Append(acc, [cand EXCEPT !.source = "semantic"])
                       ELSE UpdateExisting(acc, cand))

\* the es.search call of _semantic_search (line 595): none without an
\* embedding model (line 575) nor when encode raised before it (line 580)
EsCallsOfSemantic(model, es) ==
    IF ~model \/ es.outcome = "encode_error" THEN <<>> ELSE <<"semantic">>

\* _multi_stage_retrieval that runs the semantic stage whatever
\* self.embedding_model is
_multi_stage_retrievalAlwaysSemantic(model, q, analysis, es_lex, es_sem) ==
    LET bm25 == _bm25_search(q, analysis, es_lex) IN
    IF bm25.raised THEN [raised |-> TRUE, value |-> <<>>, es_calls |-> <<>>]
    ELSE [raised |-> FALSE,
          value |-> MergeSemantic(_semantic_search(TRUE, q, analysis, es_sem),
                                  MergeBm25(bm25.value, <<>>)),
          es_calls |-> <<"lexical">> \o EsCallsOfSemantic(TRUE, es_sem)]

\* _multi_stage_retrieval (lines 466-496); es_calls are the es.search calls it
\* made: the lexical one (line 546) unless the query body could not be built,
\* the semantic one when line 479 lets the stage run
_multi_stage_retrieval(model, q, analysis, es_lex, es_sem) ==
    LET bm25 == _bm25_search(q, analysis, es_lex) IN
    IF bm25.raised THEN [raised |-> TRUE, value |-> <<>>, es_calls |-> <<>>]
    ELSE LET after_bm25 == MergeBm25(bm25.value, <<>>) IN
         [raised |-> FALSE,
          value |-> IF model
                    THEN MergeSemantic(_semantic_search(model, q, analysis, es_sem), after_bm25)
                    ELSE after_bm25,
          es_calls |-> <<"lexical">> \o (IF model THEN EsCallsOfSemantic(model, es_sem) ELSE <<>>)]

-----------------------------------------------------------------------------
(* HybridSearchEngine: scoring and ranking *)

Factors == {"bm25", "semantic", "keyword_density", "exact_match",
            "context_boost", "proximity_bonus", "position_bonus"}

\* lines 382-390, in hundredths
DefaultWeights ==
    [f \in Factors |->
        CASE f = "bm25" -> 30
          [] f = "semantic" -> 25
          [] f = "keyword_density" -> 25
          [] f = "exact_match" -> 15
          [] f = "context_boost" -> 8
          [] f = "proximity_bonus" -> 5
          [] f = "position_bonus" -> 2]

MaxOf(S) == CHOOSE m \in S : \A x \in S : x <= m

\* MaxBm25 that takes the first lexical score of the batch for the maximum
MaxBm25First(candidates) ==
    LET lexical == {j \in DOMAIN candidates : candidates[j].has_bm25_score}
    IN  IF lexical # {} THEN candidates[CHOOSE i \in lexical : \A j \in lexical : i <= j].bm25_score
        ELSE 1

\* lines 635-636; 1.0 when no candidate has the key
MaxBm25(candidates) ==
    LET bm25_scores == {candidates[i].bm25_score : i \in {j \in DOMAIN candidates : candidates[j].has_bm25_score}}
    IN  IF bm25_scores # {} THEN MaxOf(bm25_scores) ELSE 1

\* lines 639-640; 1.0 (100 hundredths) when no candidate has the key
MaxSemantic(candidates) ==
    LET semantic_scores == {candidates[i].semantic_score : i \in {j \in DOMAIN candidates : candidates[j].has_semantic_score}}
    IN  IF semantic_scores # {} THEN MaxOf(semantic_scores) ELSE 100

\* lines 643-674: the seven factors of one candidate, in thousandths; the
\* text is a str here
ScoreBreakdown(q, analysis, candidate, text, max_bm25, max_semantic) ==
    LET bm25 == IF candidate.has_bm25_score THEN candidate.bm25_score ELSE 0
        semantic == IF candidate.has_semantic_score THEN candidate.semantic_score ELSE 0
        density_result == DensityTable[analysis.keywords][text]
    IN  [bm25 |-> IF max_bm25 > 0 THEN (bm25 * 100000) \div max_bm25 ELSE bm25 * 10000,
         semantic |-> IF max_semantic > 0 THEN (semantic * 100000) \div max_semantic
                      ELSE semantic * 1000,
         keyword_density |-> density_result.density_score * 20,
         exact_match |-> ExactMatchTable[q][text].value,
         context_boost |-> (calculate_boost(analysis, candidate) - 1000) * 20,
         proximity_bonus |-> (density_result.proximity_bonus - 1000) * 10,
         position_bonus |-> (density_result.position_bonus - 1000) * 10]

\* lines 677-685
FinalScore(scores, w) ==
    scores.bm25 * w["bm25"] + scores.semantic * w["semantic"]
    + scores.keyword_density * w["keyword_density"] + scores.exact_match * w["exact_match"]
    + scores.context_boost * w["context_boost"] + scores.proximity_bonus * w["proximity_bonus"]
    + scores.position_bonus * w["position_bonus"]

\* line 658
TextOf(candidate) == PyOr(candidate.text_full, candidate.text_summary)

\* one iteration of the loop of lines 642-689
ScoreCandidate(q, analysis, candidate, max_bm25, max_semantic, w) ==
    LET scores == ScoreBreakdown(q, analysis, candidate, TextOf(candidate), max_bm25, max_semantic)
    IN  [candidate EXCEPT !.final_score = FinalScore(scores, w), !.score_breakdown = scores]

\* _multi_factor_scoring that reads the weights of construction time
_multi_factor_scoringStale(q, analysis, candidates, w) ==
    [raised |-> FALSE,
     value |-> [i \in DOMAIN candidates |->
                   ScoreCandidate(q, analysis, candidates[i],
                                  MaxBm25(candidates), MaxSemantic(candidates), DefaultWeights)]]

\* _multi_factor_scoring (lines 630-691); raises when ExactMatchScorer.score
\* or a missing weight raises
_multi_factor_scoring(q, analysis, candidates, w) ==
    IF \/ \E i \in DOMAIN candidates : ExactMatchTable[q][TextOf(candidates[i])].raised
       \/ candidates # <<>> /\ ~(Factors \subseteq DOMAIN w)
    THEN [raised |-> TRUE, value |-> <<>>]
    ELSE [raised |-> FALSE,
          value |-> [i \in DOMAIN candidates |->
                        ScoreCandidate(q, analysis, candidates[i],
                                       MaxBm25(candidates), MaxSemantic(candidates), w)]]

RECURSIVE SortedDescUnstable(_)
\* SortedDesc that puts the later of two equal scores first
SortedDescUnstable(s) ==
    IF s = <<>> THEN <<>>
    ELSE LET k == CHOOSE i \in DOMAIN s :
                      /\ \A j \in DOMAIN s : s[j].final_score <= s[i].final_score
                      /\ \A j \in (i + 1)..Len(s) : s[j].final_score < s[i].final_score
         IN  <<s[k]>> \o SortedDescUnstable(SubSeq(s, 1, k - 1) \o SubSeq(s, k + 1, Len(s)))

RECURSIVE SortedDesc(_)
\* sorted(scored, key=final_score, reverse=True): stable, so among equal
\* scores the earlier element comes first
SortedDesc(s) ==
    IF s = <<>> THEN <<>>
    ELSE LET k == CHOOSE i \in DOMAIN s :
                      /\ \A j \in DOMAIN s : s[j].final_score <= s[i].final_score
                      /\ \A j \in 1..(i - 1) : s[j].final_score < s[i].final_score
         IN  <<s[k]>> \o SortedDesc(SubSeq(s, 1, k - 1) \o SubSeq(s, k + 1, Len(s)))

\* _generate_relevance_reason (lines 693-707), as the list of reasons
_generate_relevance_reason(item) ==
    (IF item.score_breakdown.exact_match > 5000 THEN <<"exact_match">> ELSE <<>>)
    \o (IF item.score_breakdown.context_boost > 2000 THEN <<"context_boost">> ELSE <<>>)
    \o (IF item.score_breakdown.keyword_density > 5000 THEN <<"keyword_density">> ELSE <<>>)
    \o (IF item.score_breakdown.semantic > 50000 THEN <<"semantic">> ELSE <<>>)

\* lines 445-457: one element of results
ResultItem(item) ==
    [call_id |-> item.call_id,
     call_type |-> item.call_type,
     operator_name |-> item.operator_name,
     qa_total_score |-> item.qa_total_score,
     qa_critical_violation |-> item.qa_critical_violation,
     text_summary |-> item.text_summary,
     semantic_score |-> item.final_score,
     score_breakdown |-> item.score_breakdown,
     relevance_reason |-> _generate_relevance_reason(item)]

\* lines 417-464
BuildResponse(q, lim, analysis, scored) ==
    LET ranked == SortedDesc(scored)
        shown == PySliceTo(ranked, lim)
    IN  [results |-> [i \in DOMAIN shown |-> ResultItem(shown[i])],
         total |-> Len(ranked),
         query |-> q,
         query_analysis |-> analysis]

NoResponse == [results |-> <<>>, total |-> 0, query |-> "", query_analysis |-> NoAnalysis]

-----------------------------------------------------------------------------
(* State machine *)

(* A scorer can be called on its own, outside a search.  scorer_call keeps  *)
(* the name of the scorer, the arguments that scorer takes and the value it *)
(* returned: boost for ContextBoostScorer.calculate_boost(analysis,          *)
(* document), exact for ExactMatchScorer.score(query, text) and density for *)
(* KeywordDensityScorer.score(query_words, text).                            *)
ScorerCall(name, analysis, document, q, query_words, text, boost, exact, density) ==
    [scorer |-> name, analysis |-> analysis, document |-> document, query |-> q,
     query_words |-> query_words, text |-> text,
     boost |-> boost, exact |-> exact, density |-> density]

NoScorerCall == ScorerCall("none", NoAnalysis, DocA, "", <<>>, PyStr(""), 0, 0, NeutralDensity)

\* every instance is constructed with the weights of lines 382-390; the
\* instances share the collaborators
Constructed ==
    /\ weights = [e \in Engines |-> DefaultWeights]
    /\ embedding_model \in BOOLEAN

\* no call has been made yet
NoCall ==
    /\ pc = "idle"
    /\ self = "engine1"
    /\ http_status = 0
    /\ query = ""
    /\ limit = 0
    /\ llm = LlmFailure("timeout")
    /\ es_lexical = IndexFailure("not_called")
    /\ es_semantic = IndexFailure("not_called")
    /\ es_calls = <<>>
    /\ query_analysis = [raised |-> FALSE, value |-> NoAnalysis]
    /\ all_candidates = <<>>
    /\ scored_candidates = <<>>
    /\ response = NoResponse
    /\ scorer_call = NoScorerCall

Init == Constructed /\ hybrid_search_engine = "engine1" /\ NoCall

\* dict.update: the keys of new take the values of new, the other keys of
\* old keep theirs
DictUpdate(old, new) ==
    [k \in DOMAIN old \cup DOMAIN new |-> IF k \in DOMAIN new THEN new[k] ELSE old[k]]

\* an exception raised by an earlier statement: the later ones do not run
Propagated == [raised |-> TRUE, value |-> <<>>]

\* what a call of search on instance e with (q, lim) computes and returns
\* (lines 400-464) while the collaborators behave as l, lx and sm; the caller
\* is at ret when the call has returned
searchResult(e, q, lim, l, lx, sm, ret) ==
    /\ \E analysis \in {AnalyzeTable[q][l]} :
       \E retrieved \in {IF analysis.raised THEN Propagated
                         ELSE _multi_stage_retrieval(embedding_model, q, analysis.value, lx, sm)} :
       \E scored \in {IF retrieved.raised THEN Propagated
                      ELSE _multi_factor_scoring(q, analysis.value, retrieved.value, weights[e])} :
       \E stage \in {IF analysis.raised THEN "analyze"
                     ELSE IF retrieved.raised THEN "retrieve"
                     ELSE IF scored.raised THEN "score"
                     ELSE "done"} :
          /\ self' = e
          /\ query' = q
          /\ limit' = lim
          /\ llm' = l
          /\ es_lexical' = lx
          /\ es_semantic' = sm
          /\ es_calls' = IF analysis.raised THEN <<>> ELSE retrieved.es_calls
          /\ query_analysis' = analysis
          /\ all_candidates' = IF stage \in {"score", "done"} THEN retrieved.value ELSE <<>>
          /\ scored_candidates' = IF stage = "done" THEN scored.value ELSE <<>>
          /\ response' = IF stage = "done"
                         THEN BuildResponse(q, lim, analysis.value, scored.value)
                         ELSE NoResponse
          /\ pc' = IF stage = "done" THEN ret ELSE "raised"
          /\ UNCHANGED scorer_call

\* search that also tunes the bm25 weight of its instance
searchTuning(e, q, lim, l, lx, sm, ret) ==
    /\ searchResult(e, q, lim, l, lx, sm, ret)
    /\ weights' = [weights EXCEPT ![e] = DictUpdate(@, [f \in {"bm25"} |-> 50])]
    /\ UNCHANGED <<embedding_model, hybrid_search_engine>>

\* HybridSearchEngine.search (lines 392-464): the call assigns no attribute
\* of the engine
search(e, q, lim, l, lx, sm, ret) ==
    /\ searchResult(e, q, lim, l, lx, sm, ret)
    /\ UNCHANGED <<weights, embedding_model, hybrid_search_engine>>

\* search from a caller, the index and the embedding model answering
Search ==
    /\ pc = "idle"
    /\ \E q \in Queries, lim \in Limits, l \in BasicLlmBehaviours,
          lx \in LexicalBehaviours, sm \in SemanticBehaviours(embedding_model) :
           /\ search("engine1", q, lim, l, lx, sm, "returned")
           /\ UNCHANGED http_status

\* search while collaborators fail or answer with malformed data
SearchFaulty ==
    /\ pc = "idle"
    /\ \E q \in FaultQueries, lim \in 1..MaxLimit, l \in LlmBehaviours,
          lx \in FaultyLexicalBehaviours, sm \in FaultySemanticBehaviours(embedding_model) :
           /\ search("engine1", q, lim, l, lx, sm, "returned")
           /\ UNCHANGED http_status

\* the caller has consumed the outcome of the call; nothing of a search
\* outlives it except the weights
Return ==
    /\ pc \in {"returned", "returned_again", "raised", "rejected"}
    /\ pc' = "idle"
    /\ self' = "engine1"
    /\ http_status' = 0
    /\ query' = ""
    /\ limit' = 0
    /\ llm' = LlmFailure("timeout")
    /\ es_lexical' = IndexFailure("not_called")
    /\ es_semantic' = IndexFailure("not_called")
    /\ es_calls' = <<>>
    /\ query_analysis' = [raised |-> FALSE, value |-> NoAnalysis]
    /\ all_candidates' = <<>>
    /\ scored_candidates' = <<>>
    /\ response' = NoResponse
    /\ scorer_call' = NoScorerCall
    /\ UNCHANGED <<weights, embedding_model, hybrid_search_engine>>

\* update_weights that assigns the argument to self.weights
update_weightsReplace(e, new_weights) ==
    /\ weights' = [weights EXCEPT ![e] = new_weights]
    /\ UNCHANGED <<embedding_model, hybrid_search_engine, pc, self, http_status, query, limit,
                   llm, es_lexical, es_semantic, es_calls, query_analysis, all_candidates,
                   scored_candidates, response, scorer_call>>

\* update_weights on a dict that all instances share (a class attribute)
update_weightsShared(e, new_weights) ==
    /\ weights' = [o \in Engines |-> DictUpdate(weights[e], new_weights)]
    /\ UNCHANGED <<embedding_model, hybrid_search_engine, pc, self, http_status, query, limit,
                   llm, es_lexical, es_semantic, es_calls, query_analysis, all_candidates,
                   scored_candidates, response, scorer_call>>

\* HybridSearchEngine.update_weights (lines 709-712) on instance e
update_weights(e, new_weights) ==
    /\ weights' = [weights EXCEPT ![e] = DictUpdate(weights[e], new_weights)]
    /\ UNCHANGED <<embedding_model, hybrid_search_engine, pc, self, http_status, query, limit,
                   llm, es_lexical, es_semantic, es_calls, query_analysis, all_candidates,
                   scored_candidates, response, scorer_call>>

\* the caller adjusts the weights between two searches (EXAMPLE_USAGE.py)
UpdateWeights ==
    /\ pc = "idle"
    /\ \E m \in WeightUpdates : update_weights("engine1", m)

Next == Search \/ Return \/ UpdateWeights

Spec == Init /\ [][Next]_vars

NextFaults == SearchFaulty \/ Return

SpecFaults == Init /\ [][NextFaults]_vars

-----------------------------------------------------------------------------
(* Properties of the merge and of the ranking (specification Spec) *)

\* call_ids of the hits an index query returned, in index order
HitIds(es) == [i \in DOMAIN es.hits |-> es.hits[i].source.call_id]

RECURSIVE Distinct(_, _)
\* the sequence ids without the repetitions of an id and without the ids of seen
Distinct(ids, seen) ==
    IF ids = <<>> THEN <<>>
    ELSE IF Head(ids) \in seen THEN Distinct(Tail(ids), seen)
    ELSE <<Head(ids)>> \o Distinct(Tail(ids), seen \cup {Head(ids)})

CandidateIds == [i \in DOMAIN all_candidates |-> all_candidates[i].call_id]

\* the order in which retrieval met the call_ids: lexical hits in index
\* order, then the hits only the semantic query returned, in index order
RetrievalOrder == Distinct(HitIds(es_lexical), {}) \o Distinct(HitIds(es_semantic), Range(HitIds(es_lexical)))

\* position of a call_id in the merged candidates
Pos(id) == CHOOSE i \in DOMAIN all_candidates : all_candidates[i].call_id = id

\* C1: a response of search for a limit >= 1 has at most limit results and a
\* total that is at least the number of results.
C1_ResultsWithinLimit ==
    (pc = "returned" /\ limit >= 1) =>
        /\ Len(response.results) <= limit
        /\ response.total >= Len(response.results)

\* C1 witness: a call that had to cut the ranked list down to the limit
C1_Witness ==
    /\ pc = "returned"
    /\ limit >= 1
    /\ Len(response.results) = limit
    /\ response.total > limit

\* C2: after _multi_stage_retrieval no two merged candidates share a call_id
\* and every call_id either stage returned occurs exactly once, also when a
\* stage returns one call_id several times.
C2_OneCandidatePerCallId ==
    pc = "returned" =>
        /\ \A i, j \in DOMAIN all_candidates :
              i # j => all_candidates[i].call_id # all_candidates[j].call_id
        /\ \A id \in Range(HitIds(es_lexical)) \cup Range(HitIds(es_semantic)) :
              Cardinality({i \in DOMAIN all_candidates : all_candidates[i].call_id = id}) = 1

\* C2 witness: each stage returned the same call_id twice
C2_Witness ==
    /\ pc = "returned"
    /\ Len(es_lexical.hits) = 2
    /\ es_lexical.hits[1].source.call_id = es_lexical.hits[2].source.call_id
    /\ Len(es_semantic.hits) = 2
    /\ es_semantic.hits[1].source.call_id = es_semantic.hits[2].source.call_id
    /\ Len(all_candidates) = 2

\* the lexical hits and the semantic hits that carry call_id id
LexicalHitsOf(id) == {i \in DOMAIN es_lexical.hits : es_lexical.hits[i].source.call_id = id}
SemanticHitsOf(id) == {i \in DOMAIN es_semantic.hits : es_semantic.hits[i].source.call_id = id}

\* C3: a call_id returned by both stages has exactly one scored candidate; it
\* has source "both", the bm25_score of the lexical hit (the first one when
\* the lexical stage repeats the id) and the semantic_score of the semantic
\* hit (the last one when the semantic stage repeats the id).
C3_BothStagesMerged ==
    pc = "returned" =>
        \A id \in Range(HitIds(es_lexical)) \cap Range(HitIds(es_semantic)) :
            /\ Cardinality({i \in DOMAIN scored_candidates : scored_candidates[i].call_id = id}) = 1
            /\ \A i \in DOMAIN scored_candidates :
                  scored_candidates[i].call_id = id =>
                      /\ scored_candidates[i].source = "both"
                      /\ scored_candidates[i].has_bm25_score
                      /\ scored_candidates[i].bm25_score
                           = es_lexical.hits[CHOOSE k \in LexicalHitsOf(id) :
                                                \A m \in LexicalHitsOf(id) : k <= m].score
                      /\ scored_candidates[i].has_semantic_score
                      /\ scored_candidates[i].semantic_score
                           = es_semantic.hits[CHOOSE k \in SemanticHitsOf(id) :
                                                 \A m \in SemanticHitsOf(id) : k >= m].score

\* C3 witness: a call_id came from both stages, next to one that did not
C3_Witness ==
    /\ pc = "returned"
    /\ \E id \in Range(HitIds(es_lexical)) \cap Range(HitIds(es_semantic)) :
          \E i \in DOMAIN scored_candidates :
              scored_candidates[i].call_id = id /\ scored_candidates[i].source = "both"
    /\ \E i \in DOMAIN scored_candidates : scored_candidates[i].source = "semantic"

\* r comes before c in the ranking: higher final_score, or the same
\* final_score and met earlier by retrieval
RanksBefore(r, c) ==
    \/ scored_candidates[r].final_score > scored_candidates[c].final_score
    \/ /\ scored_candidates[r].final_score = scored_candidates[c].final_score
       /\ r < c

\* C4: the results are the first limit elements of the merged candidates in
\* non-increasing final_score, equal scores in retrieval order (lexical hits
\* in index order, then semantic-only hits in index order).
C4_RankedPrefix ==
    (pc = "returned" /\ limit >= 0) =>
        /\ CandidateIds = RetrievalOrder
        /\ Len(response.results) = Min2(limit, Len(all_candidates))
        /\ \A i \in DOMAIN response.results :
              /\ response.results[i].call_id \in Range(CandidateIds)
              /\ response.results[i].semantic_score
                   = scored_candidates[Pos(response.results[i].call_id)].final_score
        /\ \A i, j \in DOMAIN response.results :
              i < j => /\ response.results[i].semantic_score >= response.results[j].semantic_score
                       /\ RanksBefore(Pos(response.results[i].call_id), Pos(response.results[j].call_id))
        /\ \A i \in DOMAIN response.results, c \in DOMAIN all_candidates :
              c \notin {Pos(response.results[k].call_id) : k \in DOMAIN response.results}
                  => RanksBefore(Pos(response.results[i].call_id), c)

\* C4 witness: two candidates tie on final_score, the limit leaves room for
\* one, and the response holds the one retrieval met first
C4_Witness ==
    /\ pc = "returned"
    /\ limit = 1
    /\ Len(scored_candidates) = 2
    /\ scored_candidates[1].call_id = "b"
    /\ scored_candidates[2].call_id = "a"
    /\ scored_candidates[1].final_score = scored_candidates[2].final_score
    /\ response.results[1].call_id = "b"

\* C10, as claimed: when the semantic stage fails the merged candidates are
\* the lexical candidates in order, each with source "bm25" and no
\* semantic_score; when the lexical stage fails and the semantic stage
\* succeeds they are the semantic candidates, each with source "semantic".
C10_StagesIndependent ==
    pc = "returned" =>
        /\ (es_lexical.outcome = "hits" /\ es_semantic.outcome = "error") =>
              /\ CandidateIds = Distinct(HitIds(es_lexical), {})
              /\ \A i \in DOMAIN all_candidates :
                    all_candidates[i].source = "bm25" /\ ~all_candidates[i].has_semantic_score
        /\ (es_lexical.outcome = "error" /\ es_semantic.outcome = "hits") =>
              /\ CandidateIds = Distinct(HitIds(es_semantic), {})
              /\ \A i \in DOMAIN all_candidates : all_candidates[i].source = "semantic"

-----------------------------------------------------------------------------
(* Properties of the failure handling (specification SpecFaults) *)

\* the index failed on every query it received during the call
IndexDown ==
    /\ pc # "idle"
    /\ es_lexical.outcome = "error"
    /\ es_semantic.outcome \in {"error", "not_called"}

\* C5, as claimed: when every call to the index fails, search returns
\* total = 0 and results = [] instead of raising, with or without an
\* embedding model and whatever the LLM does.
C5_IndexDownGivesEmpty ==
    IndexDown => (pc = "returned" /\ response.total = 0 /\ response.results = <<>>)

\* C6, as claimed: no failure or malformed answer of a collaborator makes
\* search raise.
C6_SearchNeverRaises == pc # "raised"

\* C7, as claimed: analyze returns an analysis for every outcome of the LLM
\* call.
C7_AnalyzeNeverFails == pc # "idle" => ~query_analysis.raised

\* completions that are not JSON once the fenced block is taken out
UnparseableCompletions ==
    { <<>>, <<"txt">>, <<"txt", "{eq,c}">>, <<"FENCE_JSON", "txt", "FENCE">> }

\* the LLM call timed out, answered with a status other than 200, or
\* answered 200 with a completion that does not parse
LlmFailed ==
    \/ llm.outcome = "timeout"
    \/ llm.outcome = "response" /\ llm.status_code # 200
    \/ llm.outcome = "response" /\ llm.status_code = 200 /\ llm.content \in UnparseableCompletions

EmptyConcepts == [list |-> TRUE, items |-> <<>>]

\* C8: on a timeout, a non-200 status or an unparseable completion
\* _llm_expand returns {enhanced_query: query, concepts: []} without raising,
\* and the analysis has expanded_query = query and concepts = [].
C8_LlmFallback ==
    (pc # "idle" /\ LlmFailed) =>
        /\ _llm_expand(query, llm) = Fallback(query)
        /\ Fallback(query).enhanced_query = query
        /\ Fallback(query).concepts = EmptyConcepts
        /\ ~query_analysis.raised
        /\ query_analysis.value.expanded_query = query
        /\ query_analysis.value.concepts = EmptyConcepts

\* C8 witness: the LLM answered 200 with prose inside a fenced block
C8_Witness ==
    /\ pc # "idle"
    /\ llm.outcome = "response"
    /\ llm.status_code = 200
    /\ llm.content = <<"FENCE_JSON", "txt", "FENCE">>
    /\ query_analysis.value.expanded_query = query

\* the JSON text of a completion that parses to an object without
\* enhanced_query or without concepts
IncompleteObjects == {"{eq}", "{c}", "{}"}

LlmIncomplete ==
    /\ pc # "idle"
    /\ llm.outcome = "response"
    /\ llm.status_code = 200
    /\ \E i \in DOMAIN llm.content : llm.content[i] \in IncompleteObjects

-----------------------------------------------------------------------------
(* Weight configuration: several instances, arbitrary update_weights        *)
(* arguments (specification SpecWeights)                                    *)

\* update_weights arguments: the empty mapping, a known factor, a key that is
\* no factor, a negative value
WeightMappings ==
    { [f \in {} |-> 0],
      [f \in {"bm25"} |-> 50],
      [f \in {"recency"} |-> 10],
      [f \in {"semantic"} |-> 0 - 25] }

\* a script calls update_weights on any of its instances, with any mapping
UpdateWeightsAny ==
    /\ pc = "idle"
    /\ \E e \in Engines, m \in WeightMappings : update_weights(e, m)

\* a script searches on any of its instances; the LLM is down and the
\* lexical index answers
SearchOnInstance ==
    /\ pc = "idle"
    /\ \E e \in Engines, lx \in IndexAnswers(Docs, Bm25Scores, MaxHits),
          sm \in SemanticBehaviours(FALSE) :
           /\ search(e, "Vhodyaschie zvonki", MaxLimit, LlmFailure("timeout"), lx, sm, "returned")
           /\ UNCHANGED http_status

NextWeights == UpdateWeightsAny \/ SearchOnInstance \/ Return

SpecWeights == Init /\ [][NextWeights]_vars

\* every scored candidate of the call carries the weighted sum of its
\* factors under the weights w
ScoredWith(w) ==
    \A i \in DOMAIN scored_candidates :
        scored_candidates[i].final_score = FinalScore(scored_candidates[i].score_breakdown, w)

\* C11: update_weights(m) gives every key of m the value of m and leaves the
\* weight of every other key as it was; a search made afterwards computes
\* each final_score with the weights as updated.
C11_UpdateThenSearch ==
    /\ [][\A e \in Engines, m \in WeightMappings :
             update_weights(e, m) =>
                 /\ \A k \in DOMAIN m : weights'[e][k] = m[k]
                 /\ \A k \in DOMAIN weights[e] \ DOMAIN m :
                       k \in DOMAIN weights'[e] /\ weights'[e][k] = weights[e][k]]_vars
    /\ [](pc = "returned" => ScoredWith(weights[self]))

\* C11 witness: a search returned results after update_weights({bm25: 0.5});
\* the scores differ from the ones of the default weights and the other
\* weights are the default ones
C11_Witness ==
    /\ pc = "returned"
    /\ weights[self] = DictUpdate(DefaultWeights, [f \in {"bm25"} |-> 50])
    /\ response.results # <<>>
    /\ ~ScoredWith(DefaultWeights)

\* C12: after any sequence of update_weights calls, with unknown keys and
\* empty mappings among the arguments, every instance has a weight for each
\* of the seven default factors and no search fails on a missing weight.
C12_AllFactorsWeighted ==
    /\ \A e \in Engines : Factors \subseteq DOMAIN weights[e]
    /\ pc # "raised"

\* C12 witness: a search returned results on an instance whose weights carry
\* a key that is no factor
C12_Witness ==
    /\ pc = "returned"
    /\ "recency" \in DOMAIN weights[self]
    /\ response.results # <<>>

\* C13: in every reachable state every weight of every instance is
\* non-negative.
C13_WeightsNonNegative ==
    \A e \in Engines : \A k \in DOMAIN weights[e] : weights[e][k] >= 0

\* C14: update_weights on one instance leaves the weights of every other
\* instance as they were, so an instance that was never updated scores with
\* the default weights whatever the weights of the other instances are.
C14_WeightsPerInstance ==
    /\ [][\A e \in Engines, m \in WeightMappings :
             update_weights(e, m) => \A o \in Engines \ {e} : weights'[o] = weights[o]]_vars
    /\ []((pc = "returned" /\ weights[self] = DefaultWeights) => ScoredWith(DefaultWeights))

\* C14 witness: engine2 answered a search with default weights after the
\* bm25 weight of engine1 was changed, and the scores differ from the ones
\* the weights of engine1 give
C14_Witness ==
    /\ pc = "returned"
    /\ self = "engine2"
    /\ weights["engine2"] = DefaultWeights
    /\ weights["engine1"]["bm25"] = 50
    /\ response.results # <<>>
    /\ ~ScoredWith(weights["engine1"])

-----------------------------------------------------------------------------
(* update_weights from another thread while a search is in progress          *)
(* (specification SpecThreads).  The search thread runs search in three     *)
(* kinds of steps: analysis and retrieval, one iteration of the scoring     *)
(* loop of lines 642-689 per step, and the ranking.  Each iteration reads   *)
(* self.weights anew (lines 677-685) and no lock guards the dict, so the    *)
(* other thread may run update_weights between any two steps.  The real     *)
(* interleaving is finer (seven reads per iteration); every behaviour of    *)
(* this specification is one of the program.                                 *)

\* lines 400-411: analysis and retrieval of a search on engine1
BeginSearch ==
    /\ pc = "idle"
    /\ \E q \in Queries, lx \in IndexAnswers(Docs, Bm25Scores, MaxHits),
          sm \in SemanticBehaviours(FALSE) :
       \E analysis \in {AnalyzeTable[q][LlmFailure("timeout")]} :
          /\ self' = "engine1"
          /\ query' = q
          /\ limit' = MaxLimit
          /\ llm' = LlmFailure("timeout")
          /\ es_lexical' = lx
          /\ es_semantic' = sm
          /\ es_calls' = _multi_stage_retrieval(FALSE, q, analysis.value, lx, sm).es_calls
          /\ query_analysis' = analysis
          /\ all_candidates' = _multi_stage_retrieval(FALSE, q, analysis.value, lx, sm).value
          /\ scored_candidates' = <<>>
          /\ response' = NoResponse
          /\ pc' = "scoring"
          /\ UNCHANGED <<weights, embedding_model, hybrid_search_engine, http_status,
                         scorer_call>>

\* one iteration of the loop of lines 642-689, with the weights of the moment
ScoreNext ==
    /\ pc = "scoring"
    /\ Len(scored_candidates) < Len(all_candidates)
    /\ scored_candidates' =
           Append(scored_candidates,
                  ScoreCandidate(query, query_analysis.value,
                                 all_candidates[Len(scored_candidates) + 1],
                                 MaxBm25(all_candidates), MaxSemantic(all_candidates),
                                 weights[self]))
    /\ UNCHANGED <<weights, embedding_model, hybrid_search_engine, pc, self, http_status, query,
                   limit, llm, es_lexical, es_semantic, es_calls, query_analysis,
                   all_candidates, response, scorer_call>>

\* lines 417-464: ranking and response, once every candidate is scored
FinishSearch ==
    /\ pc = "scoring"
    /\ Len(scored_candidates) = Len(all_candidates)
    /\ response' = BuildResponse(query, limit, query_analysis.value, scored_candidates)
    /\ pc' = "returned"
    /\ UNCHANGED <<weights, embedding_model, hybrid_search_engine, self, http_status, query,
                   limit, llm, es_lexical, es_semantic, es_calls, query_analysis,
                   all_candidates, scored_candidates, scorer_call>>

\* the other thread calls update_weights on engine1, whatever the search
\* thread is doing
UpdateWeightsThread == \E m \in WeightUpdates : update_weights("engine1", m)

NextThreads == BeginSearch \/ ScoreNext \/ FinishSearch \/ UpdateWeightsThread \/ Return

SpecThreads == Init /\ [][NextThreads]_vars

\* the weight configurations engine1 can have had at the start of a search
ConfigurationsInForce == {DefaultWeights} \cup {DictUpdate(DefaultWeights, m) : m \in WeightUpdates}

\* C15: a search in progress while update_weights runs in another thread
\* scores all its candidates with the weights in force when it started: the
\* scores of one response all come from one weight configuration.
C15_OneConfigurationPerResponse ==
    pc = "returned" => \E w \in ConfigurationsInForce : ScoredWith(w)

-----------------------------------------------------------------------------
(* The embedding model is optional (specification SpecOptionalModel): the   *)
(* index answers the semantic query whenever it is asked, whether or not   *)
(* the engine has an embedding model.                                       *)

SearchIndexUp ==
    /\ pc = "idle"
    /\ \E q \in Queries, lx \in LexicalBehaviours, sm \in SemanticAnswers :
           /\ search("engine1", q, MaxLimit, LlmFailure("timeout"), lx, sm, "returned")
           /\ UNCHANGED http_status

NextOptionalModel == SearchIndexUp \/ Return

SpecOptionalModel == Init /\ [][NextOptionalModel]_vars

\* the scored candidates of the same call on an engine without an embedding
\* model
ScoredWithoutModel ==
    _multi_factor_scoring(query, query_analysis.value,
                          _multi_stage_retrieval(FALSE, query, query_analysis.value,
                                                 es_lexical, es_semantic).value,
                          weights[self]).value

\* C16: without an embedding model search does not issue the semantic index
\* query, every candidate has source "bm25" and a semantic factor of 0; the
\* six other factors of a candidate are the ones the same lexical hits get on
\* an engine with an embedding model.
C16_ModelOptional ==
    pc = "returned" =>
        /\ ~embedding_model =>
              /\ es_calls = <<"lexical">>
              /\ \A i \in DOMAIN scored_candidates :
                    /\ scored_candidates[i].source = "bm25"
                    /\ scored_candidates[i].score_breakdown.semantic = 0
        /\ embedding_model =>
              \A i \in DOMAIN ScoredWithoutModel :
                  /\ i \in DOMAIN scored_candidates
                  /\ scored_candidates[i].call_id = ScoredWithoutModel[i].call_id
                  /\ \A f \in Factors \ {"semantic"} :
                        scored_candidates[i].score_breakdown[f]
                            = ScoredWithoutModel[i].score_breakdown[f]

\* C16 witness: an engine without an embedding model returned candidates
\* while the index had hits for the semantic query
C16_Witness ==
    /\ pc = "returned"
    /\ ~embedding_model
    /\ es_semantic.outcome = "hits"
    /\ es_semantic.hits # <<>>
    /\ scored_candidates # <<>>

-----------------------------------------------------------------------------
(* Non-positive limits (specification Spec) *)

\* C17: for a limit of 0 or below search does not raise and returns zero
\* results, however many candidates were retrieved.
C17_NonPositiveLimitEmpty ==
    (pc # "idle" /\ limit <= 0) => (pc = "returned" /\ response.results = <<>>)

-----------------------------------------------------------------------------
(* The REST handler of src/app/api.py (specification SpecApi) *)

\* SearchRequest (api.py lines 23-25): limit defaults to 10
ApiDefaultLimit == 10

\* a JSON request body: the field query may be absent; the field limit may be
\* absent, an integer, or a value pydantic cannot read as an int
RequestBody(q, given, int, n) ==
    [query |-> q, limit |-> [given |-> given, int |-> int, value |-> n]]

RequestBodies ==
    {RequestBody(PyStr(q), TRUE, TRUE, n) : q \in {"kak dela", "zakaz"}, n \in Limits}
    \cup {RequestBody(PyStr("zakaz"), FALSE, TRUE, 0),
          RequestBody(PyStr("zakaz"), TRUE, FALSE, 0),
          RequestBody(PyNone, TRUE, TRUE, 1)}

\* pydantic validation of SearchRequest: the types of the two fields and
\* nothing else (no Field constraint, no validator)
SearchRequest(body) ==
    IF body.query.none \/ (body.limit.given /\ ~body.limit.int)
    THEN [raised |-> TRUE, query |-> "", limit |-> 0]
    ELSE [raised |-> FALSE,
          query |-> body.query.s,
          limit |-> IF body.limit.given THEN body.limit.value ELSE ApiDefaultLimit]

\* SearchResult(...) of api.py lines 104-115 fails validation on an item whose
\* text_summary is None
SearchResultsValid(resp) == \A i \in DOMAIN resp.results : ~resp.results[i].text_summary.none

\* POST /search (api.py lines 94-125): 422 from the framework for a body that
\* is no SearchRequest, 503 without an engine, else the engine is called with
\* request.query and request.limit as they are and every exception becomes a
\* 500
ApiSearch ==
    /\ pc = "idle"
    /\ \E body \in RequestBodies, lx \in LexicalBehaviours \cup FaultyLexicalBehaviours,
          sm \in (IF embedding_model THEN {IndexFailure("error")} ELSE {IndexFailure("not_called")}) :
       \E request \in {SearchRequest(body)} :
          IF request.raised \/ hybrid_search_engine = "None"
          THEN /\ http_status' = IF request.raised THEN 422 ELSE 503
               /\ pc' = "rejected"
               /\ UNCHANGED <<weights, embedding_model, hybrid_search_engine, self, query, limit,
                              llm, es_lexical, es_semantic, es_calls, query_analysis,
                              all_candidates, scored_candidates, response, scorer_call>>
          ELSE /\ search(hybrid_search_engine, request.query, request.limit,
                         LlmFailure("timeout"), lx, sm, "returned")
               /\ http_status' = IF pc' = "raised" \/ ~SearchResultsValid(response')
                                 THEN 500 ELSE 200

\* startup (api.py lines 45-83) leaves the global engine at None when the
\* index is unreachable or the constructor fails
InitApi == Constructed /\ hybrid_search_engine \in {"engine1", "None"} /\ NoCall

NextApi == ApiSearch \/ Return

SpecApi == InitApi /\ [][NextApi]_vars

\* C18: the REST handler never calls HybridSearchEngine.search with a limit
\* below 1, whatever the request body.
C18_HandlerValidatesLimit ==
    (http_status # 0 /\ pc \in {"returned", "raised"}) => limit >= 1

-----------------------------------------------------------------------------
(* The same search twice (specification SpecRepeat): the caller repeats its  *)
(* call on the same engine and every collaborator answers as it did the      *)
(* first time.                                                               *)

SearchOnce ==
    /\ pc = "idle"
    /\ \E q \in Queries, lim \in Limits, l \in BasicLlmBehaviours, lx \in LexicalBehaviours,
          sm \in (IF embedding_model THEN {IndexFailure("error")} \cup IndexAnswers(Docs, CosineSims, 1)
                  ELSE {IndexFailure("not_called")}) :
           /\ search("engine1", q, lim, l, lx, sm, "returned")
           /\ UNCHANGED http_status

SearchAgain ==
    /\ pc = "returned"
    /\ search(self, query, limit, llm, es_lexical, es_semantic, "returned_again")
    /\ UNCHANGED http_status

NextRepeat == UpdateWeights \/ SearchOnce \/ SearchAgain \/ Return

SpecRepeat == Init /\ [][NextRepeat]_vars

-----------------------------------------------------------------------------
(* Call-type priority (specification SpecPool): the query names incoming    *)
(* calls and the lexical index returns one incoming call among MaxOutgoing  *)
(* outgoing ones.  The documents differ in call_id and call_type only, so    *)
(* every factor but bm25 and context_boost is the same for all of them.     *)

PoolDoc(id, ct) == Doc(id, ct, PyStr("Zakaz oformlen"), PyStr("zakaz"), FALSE, 1, 90)

\* the hit list: the incoming call at position p with score si, the outgoing
\* calls around it in order with the scores so
PoolHits(p, si, so) ==
    [i \in 1..(MaxOutgoing + 1) |->
        IF i = p THEN [source |-> PoolDoc("in", "Vhodyaschiy zvonok"), score |-> si]
        ELSE LET k == IF i < p THEN i ELSE i - 1
             IN  [source |-> PoolDoc("out" \o ToString(k), "Ishodyaschiy zvonok"), score |-> so[k]]]

SearchPool ==
    /\ pc = "idle"
    /\ \E p \in 1..(MaxOutgoing + 1), si \in Bm25Scores, so \in [1..MaxOutgoing -> Bm25Scores],
          sm \in (IF embedding_model THEN {IndexFailure("error")} ELSE {IndexFailure("not_called")}) :
           /\ search("engine1", "Vhodyaschie zvonki", MaxOutgoing + 1, LlmFailure("timeout"),
                     [outcome |-> "hits", hits |-> PoolHits(p, si, so)], sm, "returned")
           /\ UNCHANGED http_status

NextPool == SearchPool \/ Return

SpecPool == Init /\ [][NextPool]_vars

\* the scenario of C20: default weights, the incoming call type among the
\* entities of the query, one incoming candidate among MaxOutgoing outgoing
\* ones, and the five other factors equal across the candidates
PoolScenario ==
    /\ pc = "returned"
    /\ weights[self] = DefaultWeights
    /\ query_analysis.value.entities.call_types = <<"Vhodyaschiy zvonok">>
    /\ Len(scored_candidates) = MaxOutgoing + 1
    /\ Cardinality({i \in DOMAIN scored_candidates :
                       scored_candidates[i].call_type = "Vhodyaschiy zvonok"}) = 1
    /\ \A i \in DOMAIN scored_candidates :
          scored_candidates[i].call_type \in {"Vhodyaschiy zvonok", "Ishodyaschiy zvonok"}
    /\ \A i, j \in DOMAIN scored_candidates :
          \A f \in Factors \ {"bm25", "context_boost"} :
              scored_candidates[i].score_breakdown[f] = scored_candidates[j].score_breakdown[f]

-----------------------------------------------------------------------------
(* ContextBoostScorer.calculate_boost called on its own *)

CallTypes == {"Vhodyaschiy zvonok", "Ishodyaschiy zvonok"}

\* the analyses calculate_boost reads: an intent, the call_types entity and
\* the operators entity (lines 293-297, 314)
BoostAnalyses ==
    { [NoAnalysis EXCEPT !.intent = intent,
                         !.entities = [@ EXCEPT !.call_types = ct, !.operators = ops]] :
        intent \in Intents,
        ct \in {<<>>, <<"Vhodyaschiy zvonok">>, <<"Ishodyaschiy zvonok">>},
        ops \in {<<>>, <<"ivanov">>, <<"Petrov">>} }

\* the document fields calculate_boost reads (lines 299-324)
BoostDocuments ==
    { [DocA EXCEPT !.call_type = ct, !.problem_call_has = problem,
                   !.qa_critical_violation = critical, !.no_go_count = no_go,
                   !.empathy_count = empathy, !.qa_total_score = qa] :
        ct \in CallTypes, problem \in BOOLEAN, critical \in BOOLEAN,
        no_go \in {0, 2}, empathy \in {0, 1}, qa \in {79, 80} }

\* boost = self.context_booster.calculate_boost(query_analysis, document)
CalculateBoost ==
    /\ pc = "idle"
    /\ \E analysis \in BoostAnalyses, document \in BoostDocuments :
          scorer_call' = ScorerCall("context_boost", analysis, document, "", <<>>, PyStr(""),
                                    calculate_boost(analysis, document), 0, NeutralDensity)
    /\ pc' = "returned"
    /\ UNCHANGED <<weights, embedding_model, hybrid_search_engine, self, http_status, query,
                   limit, llm, es_lexical, es_semantic, es_calls, query_analysis,
                   all_candidates, scored_candidates, response>>

NextBoost == CalculateBoost \/ Return

SpecBoost == Init /\ [][NextBoost]_vars

RECURSIVE ProductOf(_, _)
\* start * the product of num/den over the multipliers, applied in order
ProductOf(start, multipliers) ==
    IF multipliers = <<>> THEN start
    ELSE ProductOf((start * Head(multipliers)[1]) \div Head(multipliers)[2], Tail(multipliers))

\* the multipliers of the conditions an analysis and a document satisfy
SatisfiedMultipliers(analysis, document) ==
    LET dissatisfaction == analysis.intent = "nedovolstvo_klienta"
        positive_emotion == analysis.intent = "polozhitelnye_emocii"
        operator_named == /\ analysis.intent = "problemy_s_operatorom"
                          /\ \E i \in DOMAIN analysis.entities.operators :
                                Contains(Lower(document.operator_name),
                                         Lower(analysis.entities.operators[i]))
    IN  (IF \E i \in DOMAIN analysis.entities.call_types :
               analysis.entities.call_types[i] = document.call_type
         THEN <<<<5, 1>>>> ELSE <<>>)
        \o (IF dissatisfaction /\ document.problem_call_has THEN <<<<4, 1>>>> ELSE <<>>)
        \o (IF dissatisfaction /\ document.qa_critical_violation THEN <<<<3, 1>>>> ELSE <<>>)
        \o (IF dissatisfaction /\ document.no_go_count > 0 THEN <<<<2, 1>>>> ELSE <<>>)
        \o (IF operator_named THEN <<<<3, 1>>>> ELSE <<>>)
        \o (IF positive_emotion /\ document.empathy_count > 0 THEN <<<<5, 2>>>> ELSE <<>>)
        \o (IF positive_emotion /\ document.qa_total_score >= 80 THEN <<<<3, 2>>>> ELSE <<>>)

\* C21: calculate_boost returns 1.0 times the multipliers of all the
\* conditions the analysis and the document satisfy: x5 for a document whose
\* call type is among the call_types entity; under the dissatisfaction intent
\* x4 for problem_call_has, x3 for qa_critical_violation and x2 for
\* no_go_count > 0, each on its own; under the positive-emotion intent x2.5
\* for empathy_count > 0 and x1.5 for qa_total_score >= 80 (and x3 for a named
\* operator under the operator intent); with no condition satisfied it is 1.0.
C21_BoostIsProduct ==
    scorer_call.scorer = "context_boost" =>
        LET multipliers == SatisfiedMultipliers(scorer_call.analysis, scorer_call.document) IN
        /\ scorer_call.boost = ProductOf(1000, multipliers)
        /\ multipliers = <<>> => scorer_call.boost = 1000

\* both flags of a document under the dissatisfaction intent give x12.0
C21_Witness ==
    /\ scorer_call.scorer = "context_boost"
    /\ scorer_call.analysis.intent = "nedovolstvo_klienta"
    /\ scorer_call.analysis.entities.call_types = <<>>
    /\ scorer_call.document.problem_call_has
    /\ scorer_call.document.qa_critical_violation
    /\ scorer_call.document.no_go_count = 0
    /\ scorer_call.boost = 12000

-----------------------------------------------------------------------------
(* ExactMatchScorer.score called on its own *)

\* queries of one to five words, padded, in capitals, and without a word
ExactQueries ==
    {"aa", "aa bb", "bb aa", "aa bb cc", "aa bb cc dd", "aa bb cc dd ee", " Aa BB ", "", " "}

\* texts that hold the phrase, the words apart, some of the words, or none
ExactTexts ==
    {"", "zz", "aa", "aa bb", "aa zz bb", "bb zz aa", "AA, bb", "xaa bbx", "zz aa bb cc zz",
     "aa zz bb zz cc", "cc zz aa", "aa bb cc dd", "aa zz bb zz cc zz dd", "dd zz cc zz ee",
     "ee dd cc bb aa"}

\* self.exact_matcher.score(query, text)
ExactMatch ==
    /\ pc = "idle"
    /\ \E q \in ExactQueries, text \in ExactTexts :
          scorer_call' = ScorerCall("exact_match", NoAnalysis, DocA, q, <<>>, PyStr(text),
                                    0, ExactMatchValue(q, text), NeutralDensity)
    /\ pc' = "returned"
    /\ UNCHANGED <<weights, embedding_model, hybrid_search_engine, self, http_status, query,
                   limit, llm, es_lexical, es_semantic, es_calls, query_analysis,
                   all_candidates, scored_candidates, response>>

NextExact == ExactMatch \/ Return

SpecExact == Init /\ [][NextExact]_vars

\* the words of the trimmed lower-case query and those of them in the text
WordsOfQuery(q) == Range(Split(Strip(Lower(q))))
WordsFound(q, text) == WordsOfQuery(q) \cap Range(FindWords(Lower(text)))

\* C22: ExactMatchScorer.score applies its rules in priority order, ignoring
\* case: 10.0 when the trimmed query is a substring of the text; else 5.0 when
\* every query word is a word of the text; else 2.0 when at least 0.8 of the
\* query words are found; else 1.0 when at least 0.6 are; else 0.0.  The
\* result is one of 0, 1, 2, 5, 10, and a query whose words are all in the
\* text but apart scores 5.0.
C22_ExactMatchPriority ==
    scorer_call.scorer = "exact_match" =>
        LET q == scorer_call.query
            text == scorer_call.text.s
            n == Cardinality(WordsOfQuery(q))
            found == Cardinality(WordsFound(q, text))
            phrase == Contains(Lower(text), Strip(Lower(q)))
        IN  /\ scorer_call.exact \in {0, 1000, 2000, 5000, 10000}
            /\ phrase => scorer_call.exact = 10000
            /\ ~phrase /\ found = n => scorer_call.exact = 5000
            /\ ~phrase /\ found < n /\ 10 * found >= 8 * n => scorer_call.exact = 2000
            /\ ~phrase /\ 10 * found < 8 * n /\ 10 * found >= 6 * n => scorer_call.exact = 1000
            /\ ~phrase /\ 10 * found < 6 * n => scorer_call.exact = 0
            /\ q = "aa bb" /\ text \in {"aa zz bb", "bb zz aa"} => scorer_call.exact = 5000

\* both words of the query are in the text, with another word between them
C22_Witness ==
    /\ scorer_call.scorer = "exact_match"
    /\ scorer_call.query = "aa bb"
    /\ scorer_call.text.s = "aa zz bb"
    /\ scorer_call.exact = 5000

C22_WitnessPhrase ==
    scorer_call.scorer = "exact_match" /\ scorer_call.query = " Aa BB " /\ scorer_call.exact = 10000
C22_WitnessMost ==
    scorer_call.scorer = "exact_match" /\ scorer_call.exact = 2000
C22_WitnessSome ==
    scorer_call.scorer = "exact_match" /\ scorer_call.exact = 1000
C22_WitnessNone ==
    scorer_call.scorer = "exact_match" /\ scorer_call.exact = 0

\* C30: a query without words (empty or blank) earns no exact-match bonus:
\* ExactMatchScorer.score returns 0.0 for it against every text.
C30_EmptyQueryNoBonus ==
    scorer_call.scorer = "exact_match" /\ WordsOfQuery(scorer_call.query) = {}
        => scorer_call.exact = 0

-----------------------------------------------------------------------------
(* KeywordDensityScorer.score called on its own *)

\* the largest token distance between the two query words of a text
MaxGap == 20

RECURSIVE Filler(_)
\* n tokens that are no query word
Filler(n) == IF n = 0 THEN "" ELSE " z" \o Filler(n - 1)

\* a text with first at token 0 and last at token d
GapText(first, d, last) == first \o Filler(d - 1) \o " " \o last

\* texts with the words a and b at every distance up to MaxGap, in both
\* orders, with several occurrences, with one of them, and degenerate texts
DensityTexts ==
    {PyStr(GapText("a", d, "b")) : d \in 1..MaxGap}
    \cup {PyStr(GapText("B", d, "a")) : d \in 1..MaxGap}
    \cup {PyStr("a z z z z z z b z a"), PyStr("a z z z z z z a"), PyStr("a"), PyStr("z z"),
          PyStr(""), PyStr(" "), PyStr(", !"), PyNone}

DensityQueryWords ==
    {<<>>, <<"a">>, <<"a", "b">>, <<"b", "a">>, <<"a", "b", "c">>, <<"a", "c">>, <<"c", "d">>,
     <<"a", "a">>, <<"a", "a", "b">>}

\* density_result = self.keyword_density_scorer.score(query_words, text)
KeywordDensity ==
    /\ pc = "idle"
    /\ \E query_words \in DensityQueryWords, text \in DensityTexts :
          scorer_call' = ScorerCall("keyword_density", NoAnalysis, DocA, "", query_words, text,
                                    0, 0, KeywordDensityScore(query_words, text))
    /\ pc' = "returned"
    /\ UNCHANGED <<weights, embedding_model, hybrid_search_engine, self, http_status, query,
                   limit, llm, es_lexical, es_semantic, es_calls, query_analysis,
                   all_candidates, scored_candidates, response>>

NextDensity == KeywordDensity \/ Return

SpecDensity == Init /\ [][NextDensity]_vars

\* the token indexes of a word in a text
Occurrences(w, text) ==
    IF text.none THEN {} ELSE Range(SelectIdx(FindWords(Lower(text.s)), Lower(w), 1))

\* the distances between an occurrence of one query word and an occurrence
\* of a different query word
DistancesOfDistinct(query_words, text) ==
    UNION { { Abs(p1 - p2) : <<p1, p2>> \in Occurrences(w[1], text) \X Occurrences(w[2], text) } :
            w \in { t \in Range(query_words) \X Range(query_words) : t[1] # t[2] } }

MinDistance(distances) == CHOOSE d \in distances : \A e \in distances : d <= e

\* C23: proximity_bonus is a function of the minimum token distance d between
\* an occurrence of one query word and an occurrence of a different query
\* word: 3.0 for d <= 3, 2.0 for 3 < d <= 5, 1.5 for 5 < d <= 10 and 1.0 for
\* d > 10.
C23_ProximityBuckets ==
    LET distances == DistancesOfDistinct(scorer_call.query_words, scorer_call.text) IN
    scorer_call.scorer = "keyword_density" /\ distances # {} =>
        LET d == MinDistance(distances) IN
        scorer_call.density.proximity_bonus =
            IF d <= 3 THEN 3000 ELSE IF d <= 5 THEN 2000 ELSE IF d <= 10 THEN 1500 ELSE 1000

\* C23 for query words that are pairwise different
C23_DistinctWords ==
    Cardinality(Range(scorer_call.query_words)) = Len(scorer_call.query_words)
        => C23_ProximityBuckets

C23_Distance7 ==
    /\ scorer_call.scorer = "keyword_density"
    /\ scorer_call.query_words = <<"a", "b">>
    /\ scorer_call.text = PyStr(GapText("a", 7, "b"))
    /\ scorer_call.density.proximity_bonus = 1500

\* C24: proximity_bonus is 1.0 whenever the query words hold fewer than two
\* distinct words (a list that repeats one word included) or no two distinct
\* query words both occur in the text.
C24_ProximityNeutral ==
    scorer_call.scorer = "keyword_density"
    /\ DistancesOfDistinct(scorer_call.query_words, scorer_call.text) = {}
        => scorer_call.density.proximity_bonus = 1000

\* C24 for query words that are pairwise different
C24_DistinctWords ==
    Cardinality(Range(scorer_call.query_words)) = Len(scorer_call.query_words)
        => C24_ProximityNeutral

\* C25: score returns density_score 0.0, proximity_bonus 1.0 and
\* position_bonus 1.0 for every degenerate input: no query words with any
\* text, any query words with the empty text, and any text without a word
\* character.
C25_DegenerateNeutral ==
    scorer_call.scorer = "keyword_density" =>
        LET query_words == scorer_call.query_words
            text == scorer_call.text
            neutral == /\ scorer_call.density.density_score = 0
                       /\ scorer_call.density.proximity_bonus = 1000
                       /\ scorer_call.density.position_bonus = 1000
        IN  /\ query_words = <<>> => neutral
            /\ ~text.none /\ text.s = "" => neutral
            /\ ~text.none /\ FindWords(text.s) = <<>> => neutral

\* a text of punctuation only, scored for two query words
C25_Witness ==
    /\ scorer_call.scorer = "keyword_density"
    /\ scorer_call.query_words = <<"a", "b">>
    /\ scorer_call.text = PyStr(", !")
    /\ scorer_call.density = [density_score |-> 0, proximity_bonus |-> 1000, position_bonus |-> 1000]

C25_WitnessNoWords ==
    /\ scorer_call.scorer = "keyword_density"
    /\ scorer_call.query_words = <<>>
    /\ scorer_call.text = PyStr("a z z z z z z b z a")
    /\ scorer_call.density.proximity_bonus = 1000

-----------------------------------------------------------------------------
(* The bm25 and semantic factors and the source of a merged candidate *)

\* the candidates of the batch that carry a lexical score
WithLexicalScore(candidates) == {i \in DOMAIN candidates : candidates[i].has_bm25_score}

\* C26: when a candidate of the batch has a positive lexical score, the bm25
\* factor of every candidate is 100 x its lexical score / the maximum lexical
\* score of the batch: it lies in [0, 100] and is 100 for the candidate with
\* the maximum; a candidate without a lexical score has factor 0, and so has
\* every candidate of a batch without lexical scores.
C26_Bm25Normalised ==
    LET lexical == WithLexicalScore(scored_candidates) IN
    \A i \in DOMAIN scored_candidates :
        LET factor == scored_candidates[i].score_breakdown.bm25
            top == i \in lexical
                   /\ \A j \in lexical : scored_candidates[j].bm25_score <= scored_candidates[i].bm25_score
        IN  /\ factor >= 0 /\ factor <= 100000
            /\ i \notin lexical => factor = 0
            /\ top => factor = 100000
            /\ i \in lexical =>
                  \E j \in lexical :
                     /\ \A k \in lexical : scored_candidates[k].bm25_score <= scored_candidates[j].bm25_score
                     /\ factor = (scored_candidates[i].bm25_score * 100000) \div scored_candidates[j].bm25_score

\* a batch with the lexical scores 1 and 2
C26_Witness ==
    /\ pc = "returned"
    /\ \E i, j \in DOMAIN scored_candidates :
          /\ scored_candidates[i].has_bm25_score /\ scored_candidates[i].bm25_score = 1
          /\ scored_candidates[i].score_breakdown.bm25 = 50000
          /\ scored_candidates[j].has_bm25_score /\ scored_candidates[j].bm25_score = 2
          /\ scored_candidates[j].score_breakdown.bm25 = 100000

\* a batch with a lexical candidate and a semantic-only candidate
C26_WitnessMixed ==
    /\ pc = "returned"
    /\ \E i, j \in DOMAIN scored_candidates :
          /\ scored_candidates[i].has_bm25_score
          /\ scored_candidates[i].score_breakdown.bm25 = 100000
          /\ ~scored_candidates[j].has_bm25_score
          /\ scored_candidates[j].score_breakdown.bm25 = 0

C26_WitnessNoLexical ==
    /\ pc = "returned"
    /\ scored_candidates # <<>>
    /\ WithLexicalScore(scored_candidates) = {}

\* C27: the semantic factor of every candidate lies in [0, 100], whatever
\* cosine similarities in [-1, 1] the semantic stage produced.
C27_SemanticInRange ==
    \A i \in DOMAIN scored_candidates :
        /\ scored_candidates[i].score_breakdown.semantic >= 0
        /\ scored_candidates[i].score_breakdown.semantic <= 100000

\* the call_ids a stage returned to _multi_stage_retrieval
LexicalIds == IdsOf(_bm25_search(query, query_analysis.value, es_lexical).value)
SemanticIds ==
    IF embedding_model THEN IdsOf(_semantic_search(embedding_model, query, query_analysis.value, es_semantic))
    ELSE {}

\* C28: a merged candidate has source both only if both stages returned its
\* call_id; a call_id only the semantic stage returned, even more than once,
\* has source semantic, and one only the lexical stage returned has source
\* bm25.
C28_SourceNamesStages ==
    pc = "returned" =>
        \A i \in DOMAIN all_candidates :
            LET id == all_candidates[i].call_id IN
            all_candidates[i].source =
                IF id \in LexicalIds /\ id \in SemanticIds THEN "both"
                ELSE IF id \in SemanticIds THEN "semantic"
                ELSE "bm25"

\* C28 when the semantic stage returns no call_id twice
C28_DistinctSemanticHits ==
    Cardinality(SemanticIds) = Len(es_semantic.hits) => C28_SourceNamesStages

\* C29: whenever QueryAnalyzer classifies a query as structured, the analysis
\* holds the incoming call-type entity; no query is structured while
\* entities.call_types is empty.
C29_StructuredHasCallType ==
    ~query_analysis.raised /\ query_analysis.value.query_type = "structured"
        => \E i \in DOMAIN query_analysis.value.entities.call_types :
              query_analysis.value.entities.call_types[i] = "Vhodyaschiy zvonok"

\* C29 for the queries that hold the longer stem
C29_LongStem ==
    Contains(Lower(query), "vhodyasch") => C29_StructuredHasCallType

====
